---- MODULE Spec2Model ----
(***************************************************************************)
(* Model of pyxtal/interface/vasp.py: the VASP stage runner (class VASP),  *)
(* single_optimize, single_point and the multi-stage driver optimize.      *)
(*                                                                         *)
(* The external calculator (ase Vasp), the structure library (to_pyxtal,   *)
(* optimize_lattice, good_lattice) and the file system are the             *)
(* environment: their outcomes are chosen nondeterministically.            *)
(***************************************************************************)
EXTENDS Integers, Sequences, FiniteSets, TLC

(***************************************************************************)
(* Bounds and input domains                                                *)
(***************************************************************************)
MaxLevels == 3

LevelInputs == {0, 2, 5}
RunLevelInputs == -1 .. 5
PressureInputs == {-1, 0, 2}
PipelinePressures == {0, 2}
NAtomsInputs == {3, 4}
PipelineNAtoms == {4}
SetupInputs == {"None", "recommended"}
RawEnergies == {-28, 6}
Volumes == {10, 24}

RECURSIVE SeqsUpTo(_, _)
SeqsUpTo(S, n) ==
    IF n = 0 THEN {<<>>}
    ELSE LET shorter == SeqsUpTo(S, n - 1)
         IN  shorter \cup {Append(s, x) : s \in {t \in shorter : Len(t) = n - 1}, x \in S}

LevelSeqs == SeqsUpTo(LevelInputs, MaxLevels)

(***************************************************************************)
(* Exact rational arithmetic for the energies (Python floats in the        *)
(* source).  A value is [num, den] in lowest terms with den > 0; the       *)
(* record with den = 0 stands for Python's None.                           *)
(***************************************************************************)
Abs(n) == IF n < 0 THEN -n ELSE n

RECURSIVE GCD(_, _)
GCD(a, b) == IF b = 0 THEN a ELSE GCD(b, a % b)

Rat(n, d) ==
    LET g == GCD(Abs(n), Abs(d))
        s == IF d < 0 THEN -1 ELSE 1
    IN  [num |-> s * (n \div g), den |-> s * (d \div g)]

RatInt(n) == [num |-> n, den |-> 1]
RatAdd(x, y) == Rat(x.num * y.den + y.num * x.den, x.den * y.den)
RatDivInt(x, n) == Rat(x.num, x.den * n)
RatMulInt(x, n) == Rat(x.num * n, x.den)

None == [num |-> 0, den |-> 0]
IsNone(x) == x.den = 0

\* 160.21766 = 8010883 / 50000
PVNum == 50000
PVDen == 8010883
PVTerm(p, vol) == Rat(p * vol * PVNum, PVDen)

Sentinel == 100000

(***************************************************************************)
(* Structures.  relaxed counts the calculator runs that produced the       *)
(* structure, good is the verdict good_lattice gives on it.                *)
(***************************************************************************)
NoStruc == [natoms |-> 0, relaxed |-> -1, good |-> FALSE, repr |-> "None"]
InputStruc(n) == [natoms |-> n, relaxed |-> 0, good |-> TRUE, repr |-> "pyxtal"]

len(struc) == struc.natoms

good_lattice(struc) == struc.good

(***************************************************************************)
(* Files of the working directory and the OUTCAR text                      *)
(***************************************************************************)
InputFiles == {"POSCAR", "POTCAR", "INCAR"}
AllFiles == InputFiles \cup {"OUTCAR", "vasprun.xml"}

\* the file sets the calculator can leave behind
FileOutcomes ==
    { AllFiles,
      AllFiles \ {"vasprun.xml"},
      AllFiles \ {"OUTCAR"},
      AllFiles \ {"POTCAR"} }

\* an OUTCAR line: its kind and the token the parser picks from it
RunningLine(tok) == [kind |-> "running", tok |-> tok]
ElapsedLine(tok) == [kind |-> "elapsed", tok |-> tok]
OtherLine == [kind |-> "other", tok |-> ""]

OutcarOutcomes ==
    { <<OtherLine, RunningLine("8"), ElapsedLine("3")>>,
      <<OtherLine>>,
      <<RunningLine("8"), ElapsedLine("****")>>,
      <<RunningLine(""), ElapsedLine("3")>> }

IntTokens == {"8"}
FloatTokens == {"3", "5"}
int(tok) == CASE tok = "8" -> 8
float(tok) == CASE tok = "3" -> 3 [] tok = "5" -> 5

(***************************************************************************)
(* State                                                                   *)
(***************************************************************************)
VARIABLES
    pc,         \* position of the single thread of control
    mode,       \* entry point the caller used: "optimize", "single_point", "run"
    levels,     \* optimize: the levels argument
    level,      \* run: the level argument of the stage in progress
    pstress,    \* the pstress argument
    setup,      \* the setup argument
    clean,      \* the clean argument
    read_gap,   \* run: the read_gap argument
    i,          \* optimize: 1-based position of the loop in levels
    struc,      \* optimize: the local struc
    eng,        \* optimize: the local eng (None while unbound)
    time,       \* optimize: the local time
    error,      \* optimize: the local error
    bound,      \* optimize: whether eng, time and error are bound yet
    time_total, \* optimize: the local time_total
    calc,       \* the VASP object of the stage in progress
    cwd,        \* the process's current working directory
    cwd0,       \* run: the local cwd saved on entry
    files,      \* files present in the working directory self.folder
    exc,        \* the exception that left the entry point, "" if none
    result,     \* the value the entry point returned
    started,    \* history: the stages started, in order
    stageLog,   \* history: what single_optimize returned for each stage
    calcCalls   \* history: number of calculator invocations

vars == <<pc, mode, levels, level, pstress, setup, clean, read_gap, i, struc, eng, time,
          error, bound, time_total, calc, cwd, cwd0, files, exc, result,
          started, stageLog, calcCalls>>

callerVars == <<mode, levels, pstress, setup, clean, read_gap>>
optVars == <<i, struc, eng, time, error, bound, time_total>>
histVars == <<started, stageLog, calcCalls>>

Home == "home"
Folder == "folder"

NewCalcNoError(s) ==
    [ structure |-> s,
      pstress |-> 0,
      energy |-> None,
      energy_per_atom |-> None,
      forces |-> "None",
      gap |-> -1,
      cputime |-> 0,
      ncore |-> -1,
      error |-> FALSE ]

\* VASP.__init__: the fields of a fresh stage object
NewCalc(s) ==
    [ structure |-> s,
      pstress |-> 0,
      energy |-> None,
      energy_per_atom |-> None,
      forces |-> "None",
      gap |-> -1,
      cputime |-> 0,
      ncore |-> -1,
      error |-> TRUE ]

NoResult == [struc |-> NoStruc, eng |-> None, forces |-> "None", time |-> 0, error |-> FALSE]

Init ==
    /\ pc = "idle"
    /\ mode = ""
    /\ levels = <<>>
    /\ level = 0
    /\ pstress = 0
    /\ setup = "None"
    /\ clean = TRUE
    /\ read_gap = FALSE
    /\ i = 1
    /\ struc = NoStruc
    /\ eng = None
    /\ time = 0
    /\ error = FALSE
    /\ bound = FALSE
    /\ time_total = 0
    /\ calc = NewCalc(NoStruc)
    /\ cwd = Home
    /\ cwd0 = Home
    /\ files = {}
    /\ exc = ""
    /\ result = NoResult
    /\ started = <<>>
    /\ stageLog = <<>>
    /\ calcCalls = 0

(***************************************************************************)
(* VASP.set_vasp: level -> calculator configuration                        *)
(***************************************************************************)
ValidLevels == {0, 1, 2, 3, 4}

Merge(d0, d1) ==
    [k \in DOMAIN d0 \cup DOMAIN d1 |-> IF k \in DOMAIN d1 THEN d1[k] ELSE d0[k]]

default0_unscaled(p, su) ==
    [ xc |-> "pbe", npar |-> "8", kgamma |-> "True", lcharg |-> "False",
      lwave |-> "False", ibrion |-> "2", pstress |-> p, setups |-> su ]

default0(p, su) ==
    [ xc |-> "pbe", npar |-> "8", kgamma |-> "True", lcharg |-> "False",
      lwave |-> "False", ibrion |-> "2", pstress |-> p * 10, setups |-> su ]

default1(lv) ==
    CASE lv = 0 -> [ prec |-> "low", algo |-> "normal", kspacing |-> "0.4",
                     isif |-> "4", ediff |-> "1e-2", nsw |-> 10, potim |-> "0.02" ]
      [] lv = 1 -> [ prec |-> "normal", algo |-> "normal", kspacing |-> "0.3",
                     isif |-> "3", ediff |-> "1e-3", nsw |-> 25, potim |-> "0.05" ]
      [] lv = 2 -> [ prec |-> "accurate", kspacing |-> "0.2", isif |-> "3",
                     ediff |-> "1e-3", nsw |-> 50, potim |-> "0.1" ]
      [] lv = 3 -> [ prec |-> "accurate", encut |-> "600", kspacing |-> "0.15",
                     isif |-> "3", ediff |-> "1e-4", nsw |-> 50 ]
      [] lv = 4 -> [ prec |-> "accurate", encut |-> "600", kspacing |-> "0.15",
                     isif |-> "3", ediff |-> "1e-4", nsw |-> 0 ]

\* the exception set_vasp ends with, "" when it returns a configuration
set_vasp_raises(lv) == IF lv \in ValidLevels THEN "" ELSE "UnboundLocalError"

set_vasp_level3(lv, p, su) ==
    Merge(default0(p, su), default1(IF lv = 4 THEN 3 ELSE lv))

set_vasp(lv, p, su) == Merge(default0(p, su), default1(lv))

(***************************************************************************)
(* Exceptions                                                              *)
(***************************************************************************)
\* what the calculator (ase Vasp) may raise from an evaluation
CalcExceptions == {"ValueError", "UnboundLocalError", "RuntimeError"}

\* the except clause of VASP.run
CaughtAll(x) == TRUE
Caught(x) == x \in {"ValueError", "UnboundLocalError"}

\* where an exception raised inside the try block of VASP.run leads
InTry(x) == IF Caught(x) THEN "except" ELSE "raised"

\* where an exception raised by VASP.run before its try block leads
OutsideTryCaught(x) == InTry(x)
OutsideTry(x) == "raised"

(***************************************************************************)
(* VASP.read_OUTCAR                                                        *)
(***************************************************************************)
RECURSIVE ScanOutcar(_, _, _, _)
ScanOutcar(lines, k, t, ncore) ==
    IF k > Len(lines) THEN [raises |-> "", time |-> t, ncore |-> ncore]
    ELSE LET line == lines[k] IN
         IF line.kind = "running" THEN
             IF line.tok = "" THEN [raises |-> "IndexError", time |-> t, ncore |-> ncore]
             ELSE IF line.tok \notin IntTokens
                  THEN [raises |-> "ValueError", time |-> t, ncore |-> ncore]
                  ELSE ScanOutcar(lines, k + 1, t, int(line.tok))
         ELSE IF line.kind = "elapsed" THEN
             IF line.tok \notin FloatTokens
             THEN [raises |-> "ValueError", time |-> t, ncore |-> ncore]
             ELSE ScanOutcar(lines, k + 1, float(line.tok), ncore)
         ELSE ScanOutcar(lines, k + 1, t, ncore)

read_OUTCAR(present, lines) ==
    IF ~present THEN [raises |-> "FileNotFoundError", time |-> 0, ncore |-> 0]
    ELSE ScanOutcar(lines, 1, 0, 0)

(***************************************************************************)
(* VASP.clean: os.remove of the four files, in order                       *)
(***************************************************************************)
CleanOrderWithXml == <<"POSCAR", "POTCAR", "INCAR", "OUTCAR", "vasprun.xml">>
CleanOrder == <<"POSCAR", "POTCAR", "INCAR", "OUTCAR">>

RECURSIVE RemoveFrom(_, _)
RemoveFrom(fs, k) ==
    IF k > Len(CleanOrder) THEN [raises |-> "", files |-> fs]
    ELSE IF CleanOrder[k] \notin fs THEN [raises |-> "FileNotFoundError", files |-> fs]
    ELSE RemoveFrom(fs \ {CleanOrder[k]}, k + 1)

clean_skip_absent(fs) ==
    [raises |-> "", files |-> fs \ {CleanOrder[k] : k \in 1 .. Len(CleanOrder)}]

clean_files(fs) == RemoveFrom(fs, 1)

(***************************************************************************)
(* Structure conversions                                                   *)
(***************************************************************************)
\* an Atoms object no calculator is bound to
NoCalculator == [xc |-> "None"]

\* pyxtal.to_ase: an ase Atoms object; the calculator bound to it fills in
\* volume and potential_energy when it runs
to_ase(s) ==
    [ natoms |-> s.natoms, relaxed |-> s.relaxed, repr |-> "ase",
      volume |-> 0, potential_energy |-> None, calculator |-> NoCalculator ]

\* VASP.to_pyxtal followed by optimize_lattice: a pyxtal structure of the same
\* atoms; good is the verdict good_lattice gives on its lattice
to_pyxtal(atoms, good) ==
    [ natoms |-> atoms.natoms, relaxed |-> atoms.relaxed, good |-> good,
      repr |-> "pyxtal" ]

(***************************************************************************)
(* The energy bookkeeping of VASP.run, lines 124-127                       *)
(***************************************************************************)
PressureNonZero(p) == p # 0
PressureApplies(p) == p > 0

CorrectedEnergy(raw, p, vol) ==
    IF PressureApplies(p) THEN RatAdd(raw, PVTerm(p, vol)) ELSE raw

EnergyPerCell(energy, atoms) == energy
EnergyPerAtom(energy, atoms) == RatDivInt(energy, len(atoms))

(***************************************************************************)
(* Entry points                                                            *)
(***************************************************************************)
StageRecord(lv, s) == [level |-> lv, input |-> s, calls |-> calcCalls]

\* optimize(struc, path, levels, pstress, setup, clean), line 214
CallOptimize ==
    /\ pc = "idle"
    /\ \E lv \in LevelSeqs, p \in PipelinePressures, cl \in BOOLEAN, n \in PipelineNAtoms :
          /\ levels' = lv
          /\ pstress' = p
          /\ clean' = cl
          /\ struc' = InputStruc(n)
    /\ mode' = "optimize"
    /\ setup' = "None"
    /\ read_gap' = FALSE
    /\ time_total' = 0
    /\ i' = 1
    /\ pc' = "opt_loop"
    /\ UNCHANGED <<level, eng, time, error, bound, calc, cwd, cwd0, files,
                   exc, result, histVars>>

\* single_point(struc, setup, path, clean), lines 195-196: VASP(struc, path),
\* then calc.run(setup, level=4, clean=clean)
CallSinglePoint ==
    /\ pc = "idle"
    /\ \E cl \in BOOLEAN, n \in NAtomsInputs :
          /\ clean' = cl
          /\ calc' = NewCalc(to_ase(InputStruc(n)))
          /\ started' = Append(started, StageRecord(4, InputStruc(n)))
    /\ mode' = "single_point"
    /\ level' = 4
    /\ pstress' = 0
    /\ setup' = "None"
    /\ read_gap' = FALSE
    /\ pc' = "run_setup"
    /\ UNCHANGED <<levels, optVars, cwd, cwd0, files, exc, result,
                   stageLog, calcCalls>>

\* a direct use of the class: calc = VASP(struc, path); calc.run(...)
CallRun ==
    /\ pc = "idle"
    /\ \E lv \in RunLevelInputs, p \in PressureInputs, su \in SetupInputs,
          cl \in BOOLEAN, rg \in BOOLEAN, n \in NAtomsInputs :
          /\ level' = lv
          /\ pstress' = p
          /\ setup' = su
          /\ clean' = cl
          /\ read_gap' = rg
          /\ calc' = NewCalc(to_ase(InputStruc(n)))
          /\ started' = Append(started, StageRecord(lv, InputStruc(n)))
    /\ mode' = "run"
    /\ pc' = "run_setup"
    /\ UNCHANGED <<levels, optVars, cwd, cwd0, files, exc, result,
                   stageLog, calcCalls>>

(***************************************************************************)
(* VASP.run                                                                *)
(***************************************************************************)
\* lines 119-121: save the cwd, build the configuration, bind the calculator
RunSetup ==
    /\ pc = "run_setup"
    /\ cwd0' = cwd
    /\ IF set_vasp_raises(level) = ""
       THEN /\ calc' = [calc EXCEPT !.pstress = pstress,
                                    !.structure.calculator =
                                        set_vasp(level, pstress, setup)]
            /\ pc' = "run_chdir"
            /\ exc' = exc
       ELSE /\ calc' = [calc EXCEPT !.pstress = pstress]
            /\ pc' = OutsideTry(set_vasp_raises(level))
            /\ exc' = IF pc' = "raised" THEN set_vasp_raises(level) ELSE exc
    /\ UNCHANGED <<callerVars, level, optVars, cwd, files, result, histVars>>

\* line 123
RunChdir ==
    /\ pc = "run_chdir"
    /\ cwd' = Folder
    /\ pc' = "run_energy"
    /\ UNCHANGED <<callerVars, level, optVars, calc, cwd0, files, exc,
                   result, histVars>>

\* the files of the working directory after a calculator run that left fs
AfterCalc(fs) == (files \ AllFiles) \cup fs

\* lines 124-127, the calculator returning an energy
RunEnergyOk ==
    /\ pc = "run_energy"
    /\ \E raw \in RawEnergies, vol \in Volumes, fs \in FileOutcomes :
          LET atoms == [calc.structure EXCEPT !.relaxed = @ + 1, !.volume = vol,
                                              !.potential_energy = RatInt(raw)]
              energy == CorrectedEnergy(atoms.potential_energy, calc.pstress,
                                        atoms.volume)
          IN  /\ calc' = [calc EXCEPT !.structure = atoms,
                                      !.energy = energy,
                                      !.energy_per_atom = EnergyPerAtom(energy, atoms)]
              /\ files' = AfterCalc(fs)
    /\ calcCalls' = calcCalls + 1
    /\ pc' = "run_forces"
    /\ UNCHANGED <<callerVars, level, optVars, cwd, cwd0, exc, result, started,
                   stageLog>>

\* line 124, the calculator raising
RunEnergyRaises ==
    /\ pc = "run_energy"
    /\ \E x \in CalcExceptions, fs \in {InputFiles, InputFiles \cup {"OUTCAR"}} :
          /\ pc' = InTry(x)
          /\ exc' = IF Caught(x) THEN exc ELSE x
          /\ files' = AfterCalc(fs)
    /\ calcCalls' = calcCalls + 1
    /\ UNCHANGED <<callerVars, level, optVars, calc, cwd, cwd0, result, started,
                   stageLog>>

\* line 128
RunForces ==
    /\ pc = "run_forces"
    /\ \/ /\ calc' = [calc EXCEPT !.forces = "F"]
          /\ pc' = "run_outcar"
          /\ exc' = exc
       \/ \E x \in CalcExceptions :
             /\ pc' = InTry(x)
             /\ exc' = IF Caught(x) THEN exc ELSE x
             /\ calc' = calc
    /\ UNCHANGED <<callerVars, level, optVars, cwd, cwd0, files, result,
                   histVars>>

\* line 129; oc is the text the OUTCAR file holds
RunReadOutcar ==
    /\ pc = "run_outcar"
    /\ \E oc \in OutcarOutcomes :
       LET r == read_OUTCAR("OUTCAR" \in files, oc) IN
       IF r.raises = ""
       THEN /\ calc' = [calc EXCEPT !.cputime = r.time, !.ncore = r.ncore]
            /\ pc' = "run_gap"
            /\ exc' = exc
       ELSE /\ calc' = calc
            /\ pc' = InTry(r.raises)
            /\ exc' = IF Caught(r.raises) THEN exc ELSE r.raises
    /\ UNCHANGED <<callerVars, level, optVars, cwd, cwd0, files, result,
                   histVars>>

\* pyxtal.interface.vasprun.vasprun(path).values['gap']: what reading the
\* band gap ends with
GapValues == {0, 2}
GapExceptions == {"ValueError", "KeyError"}
vasprun_raises(present, x) == IF ~present THEN "MissingArtifact" ELSE x

\* lines 130-131
RunReadGap ==
    /\ pc = "run_gap"
    /\ IF ~read_gap
       THEN /\ pc' = "run_clean"
            /\ UNCHANGED <<calc, exc>>
       ELSE \E x \in GapExceptions \cup {""}, g \in GapValues :
               LET r == vasprun_raises("vasprun.xml" \in files, x) IN
               IF r = ""
               THEN /\ calc' = [calc EXCEPT !.gap = g]
                    /\ pc' = "run_clean"
                    /\ exc' = exc
               ELSE /\ calc' = calc
                    /\ pc' = InTry(r)
                    /\ exc' = IF Caught(r) THEN exc ELSE r
    /\ UNCHANGED <<callerVars, level, optVars, cwd, cwd0, files, result,
                   histVars>>

\* lines 132-134
RunClean ==
    /\ pc = "run_clean"
    /\ LET r == IF clean THEN clean_files(files) ELSE [raises |-> "", files |-> files] IN
       /\ files' = r.files
       /\ IF r.raises = ""
          THEN /\ calc' = [calc EXCEPT !.error = FALSE]
               /\ pc' = "run_restore"
               /\ exc' = exc
          ELSE /\ calc' = calc
               /\ pc' = InTry(r.raises)
               /\ exc' = IF Caught(r.raises) THEN exc ELSE r.raises
    /\ UNCHANGED <<callerVars, level, optVars, cwd, cwd0, result, histVars>>

\* lines 135-137: cp OUTCAR Error-OUTCAR
RunExcept ==
    /\ pc = "except"
    /\ files' = IF "OUTCAR" \in files THEN files \cup {"Error-OUTCAR"} ELSE files
    /\ pc' = "run_restore"
    /\ UNCHANGED <<callerVars, level, optVars, calc, cwd, cwd0, exc, result,
                   histVars>>

\* line 138, and the return to the caller of run
RunRestore ==
    /\ pc = "run_restore"
    /\ cwd' = cwd0
    /\ pc' = CASE mode = "optimize" -> "so_ret"
               [] mode = "single_point" -> "sp_ret"
               [] OTHER -> "returned"
    /\ UNCHANGED <<callerVars, level, optVars, calc, cwd0, files, exc, result,
                   histVars>>

(***************************************************************************)
(* single_point, line 197                                                  *)
(***************************************************************************)
SinglePointReturn ==
    /\ pc = "sp_ret"
    /\ result' = [struc |-> NoStruc, eng |-> calc.energy, forces |-> calc.forces,
                  time |-> 0, error |-> calc.error]
    /\ pc' = "done"
    /\ UNCHANGED <<callerVars, level, optVars, calc, cwd, cwd0, files, exc,
                   histVars>>

(***************************************************************************)
(* single_optimize, lines 171-179, and the assignment of line 216          *)
(***************************************************************************)
FailedStageKeepsTime ==
    [struc |-> NoStruc, eng |-> RatInt(Sentinel), time |-> calc.cputime, error |-> TRUE]
FailedStage == [struc |-> NoStruc, eng |-> RatInt(Sentinel), time |-> 0, error |-> TRUE]

SingleOptimizeReturn ==
    /\ pc = "so_ret"
    /\ \E converts \in BOOLEAN, good \in BOOLEAN :
          LET ret == IF calc.error \/ ~converts
                     THEN FailedStage
                     ELSE [struc |-> to_pyxtal(calc.structure, good),
                           eng |-> calc.energy_per_atom,
                           time |-> calc.cputime,
                           error |-> calc.error]
          IN  /\ struc' = ret.struc
              /\ eng' = ret.eng
              /\ time' = ret.time
              /\ error' = ret.error
              /\ stageLog' = Append(stageLog, [struc |-> ret.struc, time |-> ret.time,
                                               error |-> ret.error])
    /\ bound' = TRUE
    /\ pc' = "opt_check"
    /\ UNCHANGED <<callerVars, level, i, time_total, calc, cwd, cwd0, files,
                   exc, result, started, calcCalls>>

(***************************************************************************)
(* optimize, lines 214-221                                                 *)
(***************************************************************************)
\* line 215-216: the next level of the loop; single_optimize builds the
\* stage object (line 169) and calls run
OptStartStage ==
    /\ pc = "opt_loop"
    /\ i <= Len(levels)
    /\ level' = levels[i]
    /\ calc' = NewCalc(to_ase(struc))
    /\ started' = Append(started, StageRecord(levels[i], struc))
    /\ pc' = "run_setup"
    /\ UNCHANGED <<callerVars, optVars, cwd, cwd0, files, exc, result,
                   stageLog, calcCalls>>

OverwriteTime(total, t) == t
AddTime(total, t) == total + t

AbortsOnErrorOnly(err, s) == err
ShouldAbort(err, s) == err \/ ~good_lattice(s)

AbortResultKeepsEnergy == [struc |-> NoStruc, eng |-> eng, forces |-> "None",
                           time |-> 0, error |-> TRUE]
AbortResult == [struc |-> NoStruc, eng |-> RatInt(Sentinel), forces |-> "None",
                time |-> 0, error |-> TRUE]

\* lines 217-220
OptCheck ==
    /\ pc = "opt_check"
    /\ time_total' = AddTime(time_total, time)
    /\ IF ShouldAbort(error, struc)
       THEN /\ result' = AbortResult
            /\ pc' = "done"
            /\ i' = i
       ELSE /\ result' = result
            /\ pc' = "opt_loop"
            /\ i' = i + 1
    /\ UNCHANGED <<callerVars, level, struc, eng, time, error, bound, calc, cwd, cwd0,
                   files, exc, started, stageLog, calcCalls>>

\* line 221, after the loop
OptReturn ==
    /\ pc = "opt_loop"
    /\ i > Len(levels)
    /\ IF bound
       THEN /\ result' = [struc |-> struc, eng |-> eng, forces |-> "None",
                          time |-> time_total, error |-> error]
            /\ pc' = "done"
            /\ exc' = exc
       ELSE /\ result' = result
            /\ pc' = "raised"
            /\ exc' = "UnboundLocalError"
    /\ UNCHANGED <<callerVars, level, optVars, calc, cwd, cwd0, files,
                   histVars>>

Next ==
    \/ CallOptimize
    \/ CallSinglePoint
    \/ CallRun
    \/ RunSetup
    \/ RunChdir
    \/ RunEnergyOk
    \/ RunEnergyRaises
    \/ RunForces
    \/ RunReadOutcar
    \/ RunReadGap
    \/ RunClean
    \/ RunExcept
    \/ RunRestore
    \/ SinglePointReturn
    \/ SingleOptimizeReturn
    \/ OptStartStage
    \/ OptCheck
    \/ OptReturn

Spec == Init /\ [][Next]_vars

(***************************************************************************)
(* Properties                                                              *)
(***************************************************************************)
StageOk(k) == ~stageLog[k].error /\ good_lattice(stageLog[k].struc)

RECURSIVE SumTimes(_, _)
SumTimes(log, k) == IF k = 0 THEN 0 ELSE log[k].time + SumTimes(log, k - 1)

AfterRun == {"run_restore", "returned", "so_ret", "sp_ret", "opt_check", "opt_loop",
             "done"}

\* C1: optimize starts its stages in the order of levels; the stage for
\* levels[k], k > 1, is started only after the stage for levels[k-1] was
\* reported successful with a lattice that good_lattice accepts, so nothing
\* is started after the first failed stage or invalid lattice.
C1_StagesInOrder ==
    mode = "optimize" =>
        /\ Len(started) <= Len(levels)
        /\ Len(stageLog) <= Len(started)
        /\ Len(started) <= Len(stageLog) + 1
        /\ \A k \in 1 .. Len(started) :
              /\ started[k].level = levels[k]
              /\ k > 1 => StageOk(k - 1)
        /\ \A k \in 1 .. Len(stageLog) : ~StageOk(k) => Len(started) = k

C1_Witness ==
    /\ mode = "optimize"
    /\ pc = "done"
    /\ levels = <<0, 2, 0>>
    /\ Len(started) = 2
    /\ StageOk(1)
    /\ stageLog[2].error

\* C2: with levels non-empty, once a stage was reported failed or left a
\* lattice that good_lattice rejects, optimize returns no structure, the
\* sentinel energy 100000 and failed = true.
C2_FailureResult ==
    (/\ mode = "optimize"
     /\ pc = "done"
     /\ Len(levels) > 0
     /\ \E k \in 1 .. Len(stageLog) : ~StageOk(k))
    => /\ result.struc = NoStruc
       /\ result.eng = RatInt(Sentinel)
       /\ result.error

C2_Witness ==
    /\ mode = "optimize"
    /\ pc = "done"
    /\ Len(levels) = 1
    /\ Len(stageLog) = 1
    /\ ~calc.error
    /\ ~stageLog[1].error
    /\ ~good_lattice(stageLog[1].struc)
    /\ result.error
    /\ result.eng = RatInt(Sentinel)

\* C3: when optimize aborts early, the time it returns is the time
\* accumulated so far, the sum of the times of the stages that were run.
C3_AbortTimeAccumulated ==
    (mode = "optimize" /\ pc = "done" /\ result.error)
    => /\ result.time = time_total
       /\ result.time = SumTimes(stageLog, Len(stageLog))

\* C4: when every stage of a non-empty levels succeeds with a valid lattice,
\* optimize returns the structure of the last stage, each stage having been
\* given the structure the previous one returned, the last stage's energy
\* per atom, the sum of the stage times, and failed = false.
C4_SuccessResult ==
    (/\ mode = "optimize"
     /\ pc = "done"
     /\ Len(levels) > 0
     /\ Len(stageLog) = Len(levels)
     /\ \A k \in 1 .. Len(stageLog) : StageOk(k))
    => /\ result.struc = stageLog[Len(stageLog)].struc
       /\ result.struc.relaxed = Len(levels)
       /\ result.struc.natoms = started[1].input.natoms
       /\ \A k \in 2 .. Len(started) : started[k].input = stageLog[k - 1].struc
       /\ ~IsNone(result.eng)
       /\ result.eng = calc.energy_per_atom
       /\ result.time = SumTimes(stageLog, Len(stageLog))
       /\ ~result.error

C4_Witness ==
    /\ mode = "optimize"
    /\ pc = "done"
    /\ levels = <<0, 2, 2>>
    /\ ~result.error
    /\ result.struc.relaxed = 3
    /\ result.time = 9

\* C5: for valid levels, no failure inside a stage leaves optimize as an
\* exception; only an unsupported level does.
C5_NoExceptionFromStage ==
    (mode = "optimize" /\ pc = "raised" /\ Len(levels) > 0)
    => \E k \in 1 .. Len(started) : started[k].level \notin ValidLevels

\* C6: whenever VASP.run is left, by return or by exception, the current
\* working directory is the one saved on entry.
C6_CwdRestored ==
    pc \in {"returned", "so_ret", "sp_ret", "raised", "done"} => cwd = cwd0

\* C7: a level outside {0,1,2,3,4} makes set_vasp raise; the exception leaves
\* run, single_optimize and optimize uncaught, no stage outcome is reported
\* for it, and the calculator is not invoked for that stage.
C7_InvalidLevelRaises ==
    \A k \in 1 .. Len(started) :
        started[k].level \notin ValidLevels =>
            /\ k = Len(started)
            /\ pc \in {"run_setup", "raised"}
            /\ pc = "raised" => exc = "UnboundLocalError"
            /\ calcCalls = started[k].calls
            /\ Len(stageLog) < k
            /\ result = NoResult
            /\ cwd = Home

C7_Witness ==
    /\ mode = "optimize"
    /\ pc = "raised"
    /\ exc = "UnboundLocalError"
    /\ Len(started) = 2
    /\ started[2].level = 5
    /\ calcCalls = 1

\* C8: a stage outcome with failed = true carries no energy, no energy per
\* atom and no forces, from run as from single_point.
C8_FailedHasNoEnergy ==
    /\ (pc \in {"returned", "so_ret", "sp_ret"} /\ calc.error)
       => /\ IsNone(calc.energy)
          /\ IsNone(calc.energy_per_atom)
          /\ calc.forces = "None"
    /\ (mode = "single_point" /\ pc = "done" /\ result.error)
       => /\ IsNone(result.eng)
          /\ result.forces = "None"

\* the energy and volume the calculator reported for the stage in progress
RawOf(c) == c.structure.potential_energy.num
VolOf(c) == c.structure.volume

\* C9: the energy of a stage run with pressure p is raw + p*volume/160.21766
\* when p > 0 and raw when p <= 0, the correction being applied once, and the
\* energy per atom is that corrected energy over the number of atoms.
C9_PressureCorrection ==
    (pc \in AfterRun \cup {"run_forces", "run_outcar", "run_gap", "run_clean"}
     /\ ~IsNone(calc.energy))
    => LET expected == IF pstress > 0
                       THEN Rat(RawOf(calc) * PVDen + pstress * VolOf(calc) * PVNum, PVDen)
                       ELSE RatInt(RawOf(calc))
       IN  /\ calc.energy = expected
           /\ calc.energy_per_atom = Rat(expected.num, expected.den * len(calc.structure))

C9_Witness ==
    /\ pc = "returned"
    /\ ~calc.error
    /\ pstress = 2
    /\ RawOf(calc) = -28
    /\ VolOf(calc) = 24
    /\ calc.energy = Rat(-28 * PVDen + 2 * 24 * PVNum, PVDen)
    /\ calc.energy # RatInt(-28)

\* C10: the energy per atom of a successful stage is its energy divided by
\* the number of atoms; 4 atoms, energy -28.0, pressure 0 and levels = [0]
\* give energyPerAtom = -7.0 and failed = false.
C10_EnergyPerAtom ==
    /\ (pc \in AfterRun /\ ~calc.error)
       => /\ ~IsNone(calc.energy)
          /\ ~IsNone(calc.energy_per_atom)
          /\ RatMulInt(calc.energy_per_atom, len(calc.structure)) = calc.energy
    /\ (pc = "opt_check" /\ ~error)
       => RatMulInt(eng, len(struc)) = calc.energy
    /\ (/\ mode = "optimize"
        /\ pc = "done"
        /\ Len(levels) = 1
        /\ pstress = 0
        /\ ~result.error
        /\ len(result.struc) = 4
        /\ RawOf(calc) = -28)
       => result.eng = RatInt(-7)

C10_Witness ==
    /\ mode = "optimize"
    /\ pc = "done"
    /\ levels = <<0>>
    /\ pstress = 0
    /\ len(result.struc) = 4
    /\ RawOf(calc) = -28
    /\ result.eng = RatInt(-7)
    /\ ~result.error

\* the configuration bound to the structure of a stage object
Calculator(c) ==
    IF "calculator" \in DOMAIN c.structure THEN c.structure.calculator
    ELSE NoCalculator

\* C11 as stated: set_vasp is a pure function of (level, pressure, overrides)
\* that multiplies the pressure by 10 and changes no state of the stage
\* runner (the binding of the configuration to the structure is run's,
\* line 121).
C11_SetVaspPure ==
    [][pc = "run_setup" =>
          /\ level \in ValidLevels => Calculator(calc').pstress = pstress * 10
          /\ [calc' EXCEPT !.structure = calc.structure] = calc]_vars

\* C11 as amended: for a valid level the configuration is determined by
\* (level, pressure, overrides) with the configured pressure 10 times the
\* input pressure and the overrides passed through, and the one piece of
\* state set_vasp changes is self.pstress, which becomes the input pressure,
\* for a valid and for an invalid level alike.
C11_SetVaspEffect ==
    [][pc = "run_setup" =>
          /\ level \in ValidLevels =>
                /\ Calculator(calc').pstress = pstress * 10
                /\ Calculator(calc').setups = setup
                /\ Calculator(calc').xc = "pbe"
                /\ {"prec", "kspacing", "isif", "ediff", "nsw"}
                      \subseteq DOMAIN Calculator(calc')
          /\ level \notin ValidLevels => calc'.structure = calc.structure
          /\ calc'.pstress = pstress
          /\ [calc' EXCEPT !.structure = calc.structure, !.pstress = calc.pstress] = calc
          /\ UNCHANGED <<callerVars, level, optVars, cwd, files, result, histVars>>]_vars

C11_Witness ==
    /\ pc = "run_chdir"
    /\ level = 3
    /\ pstress = 2
    /\ setup = "recommended"
    /\ calc.pstress = 2
    /\ Calculator(calc).pstress = 20
    /\ Calculator(calc).setups = "recommended"

\* C12: the level-4 configuration has zero relaxation steps and the levels
\* 0-3 a positive number of them; single_point runs exactly one stage, at
\* level 4 with pressure 0.
C12_SinglePointLevel ==
    /\ Calculator(calc) # NoCalculator =>
          /\ level = 4 => Calculator(calc).nsw = 0
          /\ level \in {0, 1, 2, 3} => Calculator(calc).nsw > 0
    /\ mode = "single_point" =>
          /\ Len(started) = 1
          /\ started[1].level = 4
          /\ level = 4
          /\ pstress = 0
          /\ calcCalls <= 1
          /\ pc \notin {"run_setup", "idle"} =>
                /\ calc.pstress = 0
                /\ Calculator(calc).nsw = 0
                /\ Calculator(calc).pstress = 0

C12_Witness ==
    /\ mode = "single_point"
    /\ pc = "done"
    /\ ~result.error
    /\ calcCalls = 1
    /\ Calculator(calc).nsw = 0
    /\ calc.structure.relaxed = 1

\* the four artifacts cleanup is to delete
FourArtifacts == {"POSCAR", "POTCAR", "INCAR", "OUTCAR"}

\* C13: a failure caught by run's except clause leaves the stage marked
\* failed and copies OUTCAR, when there is one, to Error-OUTCAR; cleanup is
\* not performed for that stage even with clean = True: no file is deleted
\* by the handler or after it, and no caught failure follows a cleanup.
C13_CaughtFailure ==
    [][/\ pc = "except" =>
             /\ calc.error /\ calc'.error
             /\ pc' = "run_restore"
             /\ files \subseteq files'
             /\ files' \ files \subseteq {"Error-OUTCAR"}
             /\ "OUTCAR" \in files => "Error-OUTCAR" \in files'
       /\ pc = "run_clean" => pc' # "except"
       /\ (pc = "run_restore" /\ calc.error) => (calc'.error /\ files' = files)]_vars

C13_Witness ==
    /\ pc = "run_restore"
    /\ calc.error
    /\ clean
    /\ "Error-OUTCAR" \in files
    /\ FourArtifacts \subseteq files

\* C14: with clean = True, an artifact missing at cleanup time is not
\* skipped: os.remove's FileNotFoundError leaves run and reaches the caller,
\* no stage outcome being produced.
C14_CleanupErrorFatal ==
    [][/\ (pc = "run_clean" /\ clean /\ ~(FourArtifacts \subseteq files)) =>
             /\ pc' = "raised"
             /\ exc' = "FileNotFoundError"
             /\ calc'.error
             /\ result' = result
             /\ stageLog' = stageLog
       /\ pc # "raised"]_vars

C14_Witness ==
    /\ pc = "raised"
    /\ exc = "FileNotFoundError"
    /\ clean
    /\ calc.forces = "F"
    /\ "POSCAR" \notin files
    /\ "POTCAR" \notin files
    /\ {"INCAR", "OUTCAR"} \subseteq files

\* C15: read_OUTCAR never fails the stage; with the OUTCAR file absent it
\* yields cputime 0 and ncore 0 and the stage goes on.
C15_TimingReadDegrades ==
    [][(pc = "run_outcar" /\ "OUTCAR" \notin files) =>
          /\ pc' = "run_gap"
          /\ calc'.cputime = 0
          /\ calc'.ncore = 0]_vars

\* C16: with read_gap requested, energy and forces evaluated and the
\* vasprun.xml artifact present, a failure of the band-gap read does not fail
\* the stage: the run goes on to its successful end with energy, energy per
\* atom and forces set.
C16_GapFailureNotFatal ==
    [][(pc = "run_gap" /\ read_gap /\ "vasprun.xml" \in files) =>
          /\ pc' = "run_clean"
          /\ ~IsNone(calc'.energy)
          /\ ~IsNone(calc'.energy_per_atom)
          /\ calc'.forces = "F"]_vars

InRun == {"run_setup", "run_chdir", "run_energy", "run_forces", "run_outcar",
          "run_gap", "run_clean", "except"}

\* C17: the error flag of a stage object is True from its creation and all
\* through run; it is False only after a run in which the energy, the forces,
\* the timing, the band gap (if requested) and the cleanup (if requested) all
\* completed, so error = False implies energy, energy per atom and forces
\* are present.
C17_ErrorFlag ==
    /\ pc \in InRun \cup {"idle"} => calc.error
    /\ ~calc.error =>
          /\ pc \in AfterRun
          /\ ~IsNone(calc.energy)
          /\ ~IsNone(calc.energy_per_atom)
          /\ calc.forces = "F"
          /\ calc.ncore # -1
          /\ read_gap => calc.gap \in GapValues
          /\ clean => files \cap FourArtifacts = {}

C17_Witness ==
    /\ pc = "returned"
    /\ ~calc.error
    /\ read_gap
    /\ clean
    /\ calc.gap = 2
    /\ calc.forces = "F"

\* C18: optimize called with an empty levels runs no stage and returns the
\* input structure, time 0 and failed = false.
C18_EmptyLevels ==
    (mode = "optimize" /\ levels = <<>> /\ pc \in {"done", "raised"}) =>
        /\ pc = "done"
        /\ Len(started) = 0
        /\ result.struc = struc
        /\ result.time = 0
        /\ ~result.error

\* C19: when the calculator run of a stage succeeded and the conversion of
\* the relaxed atoms back to a structure raised, single_optimize reports
\* (None, 100000, 0, True) as for a calculator failure; optimize aborts, and
\* good_lattice is never reached with an absent structure.
C19_ConversionFailure ==
    /\ (/\ mode = "optimize"
        /\ pc \in {"opt_check", "opt_loop", "done"}
        /\ Len(stageLog) > 0
        /\ ~calc.error
        /\ stageLog[Len(stageLog)].error)
       => /\ struc = NoStruc
          /\ eng = RatInt(Sentinel)
          /\ time = 0
          /\ error
          /\ stageLog[Len(stageLog)].struc = NoStruc
          /\ stageLog[Len(stageLog)].time = 0
          /\ pc # "opt_loop"
          /\ pc = "done" =>
                /\ result.struc = NoStruc
                /\ result.eng = RatInt(Sentinel)
                /\ result.time = 0
                /\ result.error
                /\ Len(started) = Len(stageLog)
    /\ (pc = "opt_check" /\ struc = NoStruc) => error

C19_Witness ==
    /\ mode = "optimize"
    /\ pc = "done"
    /\ Len(levels) = 3
    /\ Len(stageLog) = 2
    /\ ~calc.error
    /\ calc.cputime = 3
    /\ stageLog[2].error
    /\ result.error

\* C20: files are deleted only by the cleanup step of a run with clean =
\* True, after the energy, the forces, the timing and (if requested) the band
\* gap have been read; a cleanup that completes deletes exactly POSCAR,
\* POTCAR, INCAR and OUTCAR.  (The calculator itself rewrites the directory
\* at pc = "run_energy".)
C20_CleanupLast ==
    [][/\ (pc # "run_energy" /\ ~(files \subseteq files')) =>
             /\ pc = "run_clean"
             /\ clean
             /\ ~IsNone(calc.energy)
             /\ calc.forces = "F"
             /\ calc.ncore # -1
             /\ read_gap => calc.gap \in GapValues
             /\ files' \subseteq files
             /\ files \ files' \subseteq FourArtifacts
       /\ (pc = "run_clean" /\ pc' = "run_restore") =>
             /\ ~calc'.error
             /\ files' = IF clean THEN files \ FourArtifacts ELSE files
             /\ clean => FourArtifacts \subseteq files]_vars

C20_Witness ==
    /\ pc = "run_restore"
    /\ ~calc.error
    /\ clean
    /\ read_gap
    /\ calc.gap = 2
    /\ files = {"vasprun.xml"}

====
